---- MODULE Spec2Model ----
(***************************************************************************)
(* A model of src/TaskBoard.tsx: the kanban board component that keeps a   *)
(* local, optimistic copy of the board (the React state taskLists), writes *)
(* reorderings to the remote tables task_lists and tasks one row at a      *)
(* time, and replaces the local copy wholesale whenever a change           *)
(* notification triggers a refetch.                                        *)
(*                                                                         *)
(* JavaScript indices are 0-based; TLA+ sequences are 1-based.  Every      *)
(* operator below takes and returns the JavaScript index and converts at   *)
(* the point of access.                                                    *)
(***************************************************************************)
EXTENDS Integers, Sequences, FiniteSets, Bags, TLC

(***************************************************************************)
(* Bounds of the model.                                                    *)
(***************************************************************************)
NumLists == 2        \* list ids are 1..NumLists
NumTasks == 2        \* task ids are 1..NumTasks
MaxInFlight == 2     \* change notifications and fetches in flight at once
MaxEdits == 1        \* create/delete handler invocations in one behaviour
MaxFetchErrors == 1  \* failed selects in one behaviour
MaxWriteErrors == 1  \* failed updates in one behaviour
MaxGestures == 2     \* task drags in one behaviour of the two-gesture specification

ListIds == 1..NumLists
TaskIds == 1..NumTasks

\* The position column of a tasks row inserted without one (addTask).
NULL == -1
\* The droppableId of the board-level Droppable (type "list").
BoardId == 0
\* The id slot of a JavaScript `undefined` array entry (splice of nothing).
UndefinedId == 0

VARIABLES
  dbLists,    \* remote table task_lists: id -> [position]
  dbTasks,    \* remote table tasks: id -> [list_id, position]
  taskLists,  \* the React state: sequence of [id, tasks: sequence of [id, list_id]]
  mounted,    \* "new" | "mounted" | "unmounted": the effect's subscription
  passes,     \* the onDragEnd invocations that reached their write loop
  notifs,     \* postgres_changes notifications not yet delivered, per table
  ignored,    \* notifications that reached the channel after it was unsubscribed
  drag,       \* the drag in progress, if one is followed from its start: <<[type, source, draggableId]>>
  sent,       \* fetchTaskLists calls whose query has not yet run
  responses,  \* bag of fetch results not yet resumed by fetchTaskLists
  edits,      \* create/delete handler invocations so far, and the ids they drew
  faults,     \* how many selects and updates have failed so far
  calls       \* the onDragEnd calls so far: argument, board before, how the synchronous part ended

vars == <<dbLists, dbTasks, taskLists, mounted, passes, notifs, ignored, drag, sent, responses, edits, faults, calls>>

(***************************************************************************)
(* Sequence helpers.                                                       *)
(***************************************************************************)
Range(s) == {s[k] : k \in 1..Len(s)}

IsInjective(s) == \A a, b \in 1..Len(s) : s[a] = s[b] => a = b

\* All orderings of the finite set S, as sequences.
Perms(S) == {s \in [1..Cardinality(S) -> S] : \A a, b \in 1..Cardinality(S) : s[a] = s[b] => a = b}

Ids(s) == [k \in 1..Len(s) |-> s[k].id]

\* Array.prototype.splice(k, 1): the removed elements and what remains.
\* A start past the end removes nothing.
SpliceOut(s, k) ==
  IF k < Len(s)
    THEN [removed |-> <<s[k + 1]>>,
          rest |-> SubSeq(s, 1, k) \o SubSeq(s, k + 2, Len(s))]
    ELSE [removed |-> <<>>, rest |-> s]

\* An insertion that ignores the index and appends.
SpliceInAtEnd(s, k, x) == Append(s, x)

\* Array.prototype.splice(k, 0, x): a start past the end is clamped to the end.
SpliceIn(s, k, x) ==
  LET j == IF k > Len(s) THEN Len(s) ELSE k
  IN SubSeq(s, 1, j) \o <<x>> \o SubSeq(s, j + 1, Len(s))

\* const [moved] = arr.splice(k, 1): destructuring an empty array gives undefined.
UndefinedList == [id |-> UndefinedId, tasks |-> <<>>]
UndefinedTask == [id |-> UndefinedId, list_id |-> UndefinedId]

\* A lookup that falls back to the first list instead of reporting a miss.
FindListOrFirst(board, id) ==
  IF \E k \in 1..Len(board) : board[k].id = id
    THEN CHOOSE k \in 1..Len(board) : board[k].id = id
    ELSE IF Len(board) > 0 THEN 1 ELSE 0

\* Array.prototype.find by id: the 1-based place of the first match, 0 if none.
FindList(board, id) ==
  IF \E k \in 1..Len(board) : board[k].id = id
    THEN CHOOSE k \in 1..Len(board) :
           board[k].id = id /\ \A j \in 1..(k - 1) : board[j].id # id
    ELSE 0

(***************************************************************************)
(* The remote store.                                                       *)
(***************************************************************************)
TasksOf(db, l) == {t \in DOMAIN db : db[t].list_id = l}

\* ORDER BY position ASC: NULLs sort last; rows with equal keys in any order.
PosLeq(p, q) == q = NULL \/ (p # NULL /\ p <= q)

SortedByPosition(db, s) ==
  \A a, b \in 1..Len(s) : a < b => PosLeq(db[s[a]].position, db[s[b]].position)

\* The orders a query can return list l's tasks in.
TaskOrders(db, l) == {s \in Perms(TasksOf(db, l)) : SortedByPosition(db, s)}

\* One embedded task row as the component holds it.
TaskObj(t, l) == [id |-> t, list_id |-> l]

\* select("*, tasks(*)").order("position", {referencedTable: "tasks"}):
\* every list row with its tasks embedded by list_id; only the embedded tasks
\* are ordered.  The list rows carry no ORDER BY, so they come in any order.
Snapshots(dbl, dbt) ==
  LET orders == UNION {TaskOrders(dbt, l) : l \in DOMAIN dbl}
      choices == {f \in [DOMAIN dbl -> orders] : \A l \in DOMAIN dbl : f[l] \in TaskOrders(dbt, l)}
  IN {[k \in 1..Len(p) |->
         [id |-> p[k],
          tasks |-> [j \in 1..Len(f[p[k]]) |-> TaskObj(f[p[k]][j], p[k])]]] :
        p \in Perms(DOMAIN dbl), f \in choices}

(***************************************************************************)
(* Initial remote stores.  Ids are opaque (uuidv4) and the component only  *)
(* ever compares them for equality, so every store with dense positions is *)
(* a renaming of one of these: lists 1..m with list l at position l-1, and *)
(* tasks 1..n handed out list by list in position order.                   *)
(***************************************************************************)
InitialLists == {[l \in 1..m |-> [position |-> l - 1]] : m \in 0..NumLists}

\* Persisted task positions are exactly 0..n-1 in every list.
DenseTasks(dbl, dbt) ==
  \A l \in DOMAIN dbl :
    /\ {dbt[t].position : t \in TasksOf(dbt, l)} = 0..(Cardinality(TasksOf(dbt, l)) - 1)
    /\ \A a, b \in TasksOf(dbt, l) : dbt[a].position = dbt[b].position => a = b

InitialTasks(dbl) ==
  IF DOMAIN dbl = {} THEN {<<>>}
  ELSE UNION {{db \in [1..n -> [list_id : DOMAIN dbl, position : 0..(n - 1)]] :
                 /\ DenseTasks(dbl, db)
                 /\ \A a, b \in 1..n :
                      a < b => \/ db[a].list_id < db[b].list_id
                               \/ db[a].list_id = db[b].list_id /\ db[a].position < db[b].position}
              : n \in 0..NumTasks}

(***************************************************************************)
(* onDragEnd (lines 74-119).                                               *)
(***************************************************************************)
MaxIndex == IF NumLists > NumTasks THEN NumLists ELSE NumTasks

Places(ids) == [droppableId : ids, index : 0..MaxIndex]

\* The arguments the drag library can hand to onDragEnd.  destination is
\* <<>> for null.  A list drag lives in the board Droppable, a task drag in
\* the Droppable of a list; the ids and indices are those of the board as it
\* was rendered when the drag began, so they may be stale.
Results ==
  [type : {"list"}, source : Places({BoardId}),
   destination : {<<>>} \cup {<<d>> : d \in Places({BoardId})}]
  \cup
  [type : {"task"}, source : Places(ListIds),
   destination : {<<>>} \cup {<<d>> : d \in Places(ListIds)}]

\* A reorder that reads destination.index as a place in the array before the
\* removal ("insert before the item now at that index").
ReorderListsBeforeOld(board, s, d) ==
  LET out == SpliceOut(board, s)
      movedList == IF out.removed = <<>> THEN UndefinedList ELSE out.removed[1]
  IN SpliceIn(out.rest, IF d > s THEN d - 1 ELSE d, movedList)

\* Lines 80-82: copy the array, splice the list out, splice it in.
ReorderLists(board, s, d) ==
  LET out == SpliceOut(board, s)
      movedList == IF out.removed = <<>> THEN UndefinedList ELSE out.removed[1]
  IN SpliceIn(out.rest, d, movedList)

\* A move that copies the task into the destination and leaves the source alone.
SpliceTaskCopying(board, si, di, s, d) ==
  LET out == SpliceOut(board[si].tasks, s)
      movedTask == IF out.removed = <<>> THEN UndefinedTask ELSE out.removed[1]
  IN [moved |-> movedTask,
      board |-> [board EXCEPT ![di].tasks = SpliceIn(@, d, movedTask)],
      at |-> (IF d > Len(board[di].tasks) THEN Len(board[di].tasks) ELSE d) + 1]

\* Lines 105-106: both splices act on the list objects themselves.
SpliceTask(board, si, di, s, d) ==
  LET out == SpliceOut(board[si].tasks, s)
      movedTask == IF out.removed = <<>> THEN UndefinedTask ELSE out.removed[1]
      afterOut == [board EXCEPT ![si].tasks = out.rest]
  IN [moved |-> movedTask,
      board |-> [afterOut EXCEPT ![di].tasks = SpliceIn(@, d, movedTask)],
      at |-> (IF d > Len(afterOut[di].tasks) THEN Len(afterOut[di].tasks) ELSE d) + 1]

\* A move that forgets line 107.
KeepListId(board, di, at) == board

\* Line 107: movedTask.list_id = destList.id, on the object now inside destList.
AssignListId(board, di, at) ==
  [board EXCEPT ![di].tasks[at].list_id = board[di].id]

\* Array.prototype.find with the callback (list) => list.id === id reads .id of
\* every entry up to the first match: an undefined entry before it throws.
FindThrows(board, id) ==
  \E k \in 1..Len(board) :
    /\ board[k] = UndefinedList
    /\ \A j \in 1..(k - 1) : board[j].id # id

\* A write pass: the part of onDragEnd after setTaskLists.  live says that
\* destList is still one of the objects of taskLists (the loop reads its
\* tasks array afresh on every iteration); otherwise ids is the array the
\* loop reads.  emitted lists the update calls issued so far; while status is
\* "await" the last of them has not yet returned.
NewPass(type, destId, live, ids) ==
  [type |-> type, destId |-> destId, live |-> live, ids |-> ids,
   emitted |-> <<>>, status |-> "loop", failed |-> FALSE]

\* A loop that runs over every task of the board, not only destList's.
RECURSIVE AllTaskIds(_)
AllTaskIds(board) ==
  IF board = <<>> THEN <<>> ELSE Ids(Head(board).tasks) \o AllTaskIds(Tail(board))

PassSeqWholeBoard(p, board) == IF p.live THEN AllTaskIds(board) ELSE p.ids

PassSeq(p, board) ==
  IF p.live THEN Ids(board[FindList(board, p.destId)].tasks) ELSE p.ids

\* A loop without the await: every remaining update is issued at once, and
\* the pass waits for the last.
AdvanceIssuingAll(p, board) ==
  LET seq == PassSeq(p, board)
      i == Len(p.emitted)
  IN IF i >= Len(seq) THEN [p EXCEPT !.status = "done"]
     ELSE IF \E k \in (i + 1)..Len(seq) : seq[k] = UndefinedId THEN [p EXCEPT !.status = "threw"]
     ELSE [p EXCEPT !.status = "await",
                    !.emitted = @ \o [k \in 1..(Len(seq) - i) |->
                                       [id |-> seq[i + k], position |-> i + k - 1,
                                        list_id |-> p.destId]]]

\* One evaluation of the loop head and body up to the await (lines 87-91,
\* 112-116): i counts the updates issued so far.
Advance(p, board) ==
  LET seq == PassSeq(p, board)
      i == Len(p.emitted)
  IN IF i >= Len(seq) THEN [p EXCEPT !.status = "done"]
     ELSE IF seq[i + 1] = UndefinedId THEN [p EXCEPT !.status = "threw"]
     ELSE [p EXCEPT !.status = "await",
                    !.emitted = Append(@, [id |-> seq[i + 1], position |-> i,
                                           list_id |-> p.destId])]

\* A return that clears the board on its way out.
ReturnClearing(board) == [board |-> <<>>, outcome |-> "returned", pass |-> <<>>]

\* Lines 76 and 103: return, with nothing set and nothing written.
Return(board) == [board |-> board, outcome |-> "returned", pass |-> <<>>]

\* The synchronous part of onDragEnd: the next board, how it ended, and the
\* write pass it starts (if any), suspended at its first await.
OnDragEnd(board, result) ==
  IF result.destination = <<>> THEN Return(board)
  ELSE LET source == result.source
           destination == result.destination[1]
       IN
  IF result.type = "list" THEN
    LET updatedLists == ReorderLists(board, source.index, destination.index)
    IN [board |-> updatedLists, outcome |-> "set",
        pass |-> <<Advance(NewPass("list", BoardId, FALSE, Ids(updatedLists)), updatedLists)>>]
  ELSE  \* result.type = "task"
    IF FindThrows(board, source.droppableId) \/ FindThrows(board, destination.droppableId) THEN
      [board |-> board, outcome |-> "threw", pass |-> <<>>]
    ELSE
    LET si == FindList(board, source.droppableId)
        di == FindList(board, destination.droppableId)
    IN IF si = 0 \/ di = 0 THEN Return(board)
       ELSE
         LET sp == SpliceTask(board, si, di, source.index, destination.index)
         IN IF sp.moved = UndefinedTask THEN
              [board |-> sp.board, outcome |-> "threw", pass |-> <<>>]
            ELSE
              LET updatedLists == AssignListId(sp.board, di, sp.at)
              IN [board |-> updatedLists, outcome |-> "set",
                  pass |-> <<Advance(NewPass("task", board[di].id, TRUE, <<>>), updatedLists)>>]

\* The tables the channel listens to (lines 28 and 33).
Tables == {"tasks", "task_lists"}

Pending(n) == n["tasks"] + n["task_lists"]

InFlight == Pending(notifs) + sent + BagCardinality(responses)

\* The component renders every entry's id: an undefined entry ends it.
Renderable(board) ==
  \A k \in 1..Len(board) :
    /\ board[k] # UndefinedList
    /\ \A j \in 1..Len(board[k].tasks) : board[k].tasks[j] # UndefinedTask

Interactive == mounted = "mounted" /\ Renderable(taskLists)

DragEnd(result) ==
  /\ Interactive
  /\ LET o == OnDragEnd(taskLists, result)
     IN /\ taskLists' = o.board
        /\ passes' = passes \o o.pass
        /\ calls' = Append(calls, [result |-> result, before |-> taskLists,
                                   outcome |-> o.outcome])
  /\ drag' = <<>>
  /\ UNCHANGED <<dbLists, dbTasks, mounted, notifs, sent, responses, edits, faults, ignored>>

\* The user picks up a rendered list or task: the drag library notes the
\* Droppable it is in and the index its Draggable was rendered with (lines
\* 130, 138, 157, 165-168), and hands them to onDragEnd as result.source.
DragStart(type, source) ==
  /\ Interactive
  /\ drag = <<>>
  /\ IF type = "list"
       THEN source.droppableId = BoardId /\ source.index < Len(taskLists)
       ELSE /\ FindList(taskLists, source.droppableId) # 0
            /\ source.index < Len(taskLists[FindList(taskLists, source.droppableId)].tasks)
  /\ drag' = <<[type |-> type, source |-> source,
                draggableId |-> IF type = "list" THEN taskLists[source.index + 1].id
                                ELSE taskLists[FindList(taskLists, source.droppableId)]
                                       .tasks[source.index + 1].id]>>
  /\ UNCHANGED <<dbLists, dbTasks, taskLists, mounted, passes, notifs, sent, responses, edits, faults, calls, ignored>>

\* onDragEnd in another instance of the component, on a board that instance
\* has just fetched.  Only its write pass reaches this one, through the
\* store; nothing else touches the array its loop reads.
RemoteDragEnd(result, board) ==
  /\ board \in Snapshots(dbLists, dbTasks)
  /\ LET o == OnDragEnd(board, result)
     IN /\ o.outcome = "set"
        /\ passes' = Append(passes, [o.pass[1] EXCEPT !.live = FALSE,
                                                     !.ids = PassSeq(o.pass[1], o.board)])
        /\ calls' = Append(calls, [result |-> result, before |-> board,
                                   outcome |-> o.outcome])
  /\ UNCHANGED <<dbLists, dbTasks, taskLists, mounted, notifs, sent, responses, edits, faults, ignored, drag>>

(***************************************************************************)
(* The write loops (lines 87-92 and 112-117), one update at a time.        *)
(***************************************************************************)
Awaited(p) == p.emitted[Len(p.emitted)]

\* update({position}).eq("id", id) on task_lists.
UpdateList(dbl, w) ==
  IF w.id \in DOMAIN dbl THEN [dbl EXCEPT ![w.id].position = w.position] ELSE dbl

\* update({position, list_id}).eq("id", id) on tasks.
UpdateTask(dbt, w) ==
  IF w.id \in DOMAIN dbt
    THEN [dbt EXCEPT ![w.id] = [list_id |-> w.list_id, position |-> w.position]]
    ELSE dbt

TableOf(p) == IF p.type = "list" THEN "task_lists" ELSE "tasks"

\* Whether the update matches a row (and so produces a change notification).
Matches(p, w) == IF p.type = "list" THEN w.id \in DOMAIN dbLists ELSE w.id \in DOMAIN dbTasks

\* tasks.list_id references task_lists.id (the embedding select needs the
\* relationship): an update that would leave a row pointing nowhere is refused.
Accepted(p, w) == p.type = "task" /\ w.id \in DOMAIN dbTasks => w.list_id \in DOMAIN dbLists

\* The awaited update lands and returns; the loop goes on to its next await.
WriteLand(k) ==
  /\ k \in 1..Len(passes)
  /\ passes[k].status = "await"
  /\ LET p == passes[k]
         w == Awaited(p)
     IN /\ Accepted(p, w)
        /\ Matches(p, w) => InFlight < MaxInFlight
        /\ dbLists' = IF p.type = "list" THEN UpdateList(dbLists, w) ELSE dbLists
        /\ dbTasks' = IF p.type = "task" THEN UpdateTask(dbTasks, w) ELSE dbTasks
        /\ notifs' = IF Matches(p, w) THEN [notifs EXCEPT ![TableOf(p)] = @ + 1] ELSE notifs
        /\ passes' = [passes EXCEPT ![k] = Advance(p, taskLists)]
  /\ UNCHANGED <<taskLists, mounted, sent, responses, edits, calls, faults, ignored, drag>>

\* A failure handler that puts the board back as it was before the gesture.
WriteFailRollingBack(k) ==
  /\ k \in 1..Len(passes)
  /\ passes[k].status = "await"
  /\ faults.write < MaxWriteErrors
  /\ faults' = [faults EXCEPT !.write = @ + 1]
  /\ taskLists' = calls[Len(calls)].before
  /\ passes' = [passes EXCEPT ![k] = Advance([passes[k] EXCEPT !.failed = TRUE], taskLists)]
  /\ UNCHANGED <<dbLists, dbTasks, mounted, notifs, sent, responses, edits, calls, ignored, drag>>

\* The awaited update fails: supabase resolves with {error}, which the loop
\* does not read; it goes on to its next await.
WriteFail(k) ==
  /\ k \in 1..Len(passes)
  /\ passes[k].status = "await"
  /\ faults.write < MaxWriteErrors
  /\ faults' = [faults EXCEPT !.write = @ + 1]
  /\ passes' = [passes EXCEPT ![k] = Advance([passes[k] EXCEPT !.failed = TRUE], taskLists)]
  /\ UNCHANGED <<dbLists, dbTasks, taskLists, mounted, notifs, sent, responses, edits, calls, ignored, drag>>

(***************************************************************************)
(* The effect (lines 22-40) and fetchTaskLists (lines 42-49).              *)
(***************************************************************************)
\* Lines 23-36: the first fetch goes out and the channel is subscribed.
Mount ==
  /\ mounted = "new"
  /\ mounted' = "mounted"
  /\ sent' = sent + 1
  /\ UNCHANGED <<dbLists, dbTasks, taskLists, passes, notifs, responses, edits, calls, faults, ignored, drag>>

\* Lines 37-39: the cleanup.
Unmount ==
  /\ mounted = "mounted"
  /\ mounted' = "unmounted"
  /\ UNCHANGED <<dbLists, dbTasks, taskLists, passes, notifs, sent, responses, edits, calls, faults, ignored, drag>>

\* A channel that is never released.
SubscribedForever(table) == mounted # "new" /\ table \in Tables

\* Lines 24-39: from subscribe() to unsubscribe() the channel hands the
\* changes of both tables to fetchTaskLists.
Subscribed(table) == mounted = "mounted" /\ table \in Tables

\* A postgres_changes event of the table reaches the channel: while
\* subscribed its callback is fetchTaskLists (lines 29, 34), whose request
\* goes out.
Notify(table) ==
  /\ notifs[table] > 0
  /\ notifs' = [notifs EXCEPT ![table] = @ - 1]
  /\ sent' = IF Subscribed(table) THEN sent + 1 ELSE sent
  /\ ignored' = IF Subscribed(table) THEN ignored ELSE ignored + 1
  /\ UNCHANGED <<dbLists, dbTasks, taskLists, mounted, passes, responses, edits, calls, faults, drag>>

\* Lines 43-46: the select runs against the store as it is now.
FetchQuery ==
  /\ sent > 0
  /\ sent' = sent - 1
  /\ \E lists \in Snapshots(dbLists, dbTasks) :
       responses' = responses (+) SetToBag({[error |-> FALSE, lists |-> lists]})
  /\ UNCHANGED <<dbLists, dbTasks, taskLists, mounted, passes, notifs, edits, calls, faults, ignored, drag>>

\* Lines 43-46: the select fails; data is null.
FetchError ==
  /\ sent > 0
  /\ faults.fetch < MaxFetchErrors
  /\ sent' = sent - 1
  /\ faults' = [faults EXCEPT !.fetch = @ + 1]
  /\ responses' = responses (+) SetToBag({[error |-> TRUE, lists |-> <<>>]})
  /\ UNCHANGED <<dbLists, dbTasks, taskLists, mounted, passes, notifs, edits, calls, ignored, drag>>

\* setTaskLists(lists) with freshly parsed objects: a write loop that still
\* holds a list object of the old board keeps that object, which nothing
\* mutates any more.
Detach(p, board) ==
  IF p.live THEN [p EXCEPT !.live = FALSE, !.ids = PassSeq(p, board)] ELSE p

\* A reconciler that keeps the optimistic board while a write pass is running.
FetchResolveKeepingEdits(r) ==
  /\ r \in BagToSet(responses)
  /\ responses' = responses (-) SetToBag({r})
  /\ IF r.error \/ mounted # "mounted" \/ \E k \in 1..Len(passes) : passes[k].status = "await"
       THEN UNCHANGED <<taskLists, passes>>
       ELSE /\ taskLists' = r.lists
            /\ passes' = [k \in 1..Len(passes) |-> Detach(passes[k], taskLists)]
  /\ UNCHANGED <<dbLists, dbTasks, mounted, notifs, sent, edits, calls, faults, ignored, drag>>

\* A reconciler that cancels the other fetches in flight when one resumes.
FetchResolveCancelling(r) ==
  /\ r \in BagToSet(responses)
  /\ responses' = EmptyBag
  /\ IF r.error \/ mounted # "mounted"
       THEN UNCHANGED <<taskLists, passes>>
       ELSE /\ taskLists' = r.lists
            /\ passes' = [k \in 1..Len(passes) |-> Detach(passes[k], taskLists)]
  /\ UNCHANGED <<dbLists, dbTasks, mounted, notifs, sent, edits, calls, faults, ignored, drag>>

\* A reconciler without the error check: setTaskLists(lists || []).
FetchResolveUnchecked(r) ==
  /\ r \in BagToSet(responses)
  /\ responses' = responses (-) SetToBag({r})
  /\ IF mounted # "mounted"
       THEN UNCHANGED <<taskLists, passes>>
       ELSE /\ taskLists' = r.lists
            /\ passes' = [k \in 1..Len(passes) |-> Detach(passes[k], taskLists)]
  /\ UNCHANGED <<dbLists, dbTasks, mounted, notifs, sent, edits, calls, faults, ignored, drag>>

\* Line 48: fetchTaskLists resumes with its result.
FetchResolve(r) ==
  /\ r \in BagToSet(responses)
  /\ responses' = responses (-) SetToBag({r})
  /\ IF r.error \/ mounted # "mounted"
       THEN UNCHANGED <<taskLists, passes>>
       ELSE /\ taskLists' = r.lists
            /\ passes' = [k \in 1..Len(passes) |-> Detach(passes[k], taskLists)]
  /\ UNCHANGED <<dbLists, dbTasks, mounted, notifs, sent, edits, calls, faults, ignored, drag>>

(***************************************************************************)
(* The create and delete handlers (lines 51-72).  Each awaits one write     *)
(* and does nothing after it, so the write is one step; ok says whether     *)
(* the store accepted it.  uuidv4() is the next unused id.                  *)
(***************************************************************************)
Prompts == {"", "text"}

Extend(f, x, v) == [y \in DOMAIN f \cup {x} |-> IF y = x THEN v ELSE f[y]]

Without(f, S) == [y \in DOMAIN f \ S |-> f[y]]

RenderedLists == Range(Ids(taskLists))

RenderedTasks == UNION {Range(Ids(taskLists[k].tasks)) : k \in 1..Len(taskLists)}

\* Lines 51-58.
AddTaskList(title, ok) ==
  /\ Interactive
  /\ edits.n < MaxEdits
  /\ edits.list <= NumLists
  /\ IF title = "" THEN UNCHANGED vars
     ELSE /\ edits' = [edits EXCEPT !.n = @ + 1, !.list = @ + 1]
          /\ IF ok
               THEN /\ InFlight < MaxInFlight
                    /\ dbLists' = Extend(dbLists, edits.list, [position |-> Len(taskLists)])
                    /\ notifs' = [notifs EXCEPT !["task_lists"] = @ + 1]
               ELSE UNCHANGED <<dbLists, notifs>>
          /\ UNCHANGED <<dbTasks, taskLists, mounted, passes, sent, responses, calls, faults, ignored, drag>>

\* Lines 60-62.  A list that still has tasks is deleted together with them
\* (ON DELETE CASCADE) or not at all (ok = FALSE).
DeleteTaskList(list_id, ok) ==
  /\ Interactive
  /\ edits.n < MaxEdits
  /\ list_id \in RenderedLists
  /\ edits' = [edits EXCEPT !.n = @ + 1]
  /\ IF ok /\ list_id \in DOMAIN dbLists
       THEN /\ InFlight + 1 + Cardinality(TasksOf(dbTasks, list_id)) <= MaxInFlight
            /\ dbLists' = Without(dbLists, {list_id})
            /\ dbTasks' = Without(dbTasks, TasksOf(dbTasks, list_id))
            /\ notifs' = [notifs EXCEPT !["task_lists"] = @ + 1,
                                       !["tasks"] = @ + Cardinality(TasksOf(dbTasks, list_id))]
       ELSE UNCHANGED <<dbLists, dbTasks, notifs>>
  /\ UNCHANGED <<taskLists, mounted, passes, sent, responses, calls, faults, ignored, drag>>

\* Lines 64-68: the row is inserted without a position.
AddTask(list_id, content, ok) ==
  /\ Interactive
  /\ edits.n < MaxEdits
  /\ edits.task <= NumTasks
  /\ list_id \in RenderedLists
  /\ IF content = "" THEN UNCHANGED vars
     ELSE /\ edits' = [edits EXCEPT !.n = @ + 1, !.task = @ + 1]
          /\ IF ok
               THEN /\ list_id \in DOMAIN dbLists
                    /\ InFlight < MaxInFlight
                    /\ dbTasks' = Extend(dbTasks, edits.task, [list_id |-> list_id, position |-> NULL])
                    /\ notifs' = [notifs EXCEPT !["tasks"] = @ + 1]
               ELSE UNCHANGED <<dbTasks, notifs>>
          /\ UNCHANGED <<dbLists, taskLists, mounted, passes, sent, responses, calls, faults, ignored, drag>>

\* Lines 70-72.
DeleteTask(taskId, ok) ==
  /\ Interactive
  /\ edits.n < MaxEdits
  /\ taskId \in RenderedTasks
  /\ edits' = [edits EXCEPT !.n = @ + 1]
  /\ IF ok /\ taskId \in DOMAIN dbTasks
       THEN /\ InFlight < MaxInFlight
            /\ dbTasks' = Without(dbTasks, {taskId})
            /\ notifs' = [notifs EXCEPT !["tasks"] = @ + 1]
       ELSE UNCHANGED <<dbTasks, notifs>>
  /\ UNCHANGED <<dbLists, taskLists, mounted, passes, sent, responses, calls, faults, ignored, drag>>

(***************************************************************************)
(* Specifications.                                                         *)
(***************************************************************************)
\* The component has been constructed (useState([]), line 20) over a store
\* that already holds a board.
Init ==
  /\ dbLists \in InitialLists
  /\ dbTasks \in InitialTasks(dbLists)
  /\ taskLists = <<>>
  /\ mounted = "new"
  /\ passes = <<>>
  /\ notifs = [table \in Tables |-> 0]
  /\ ignored = 0
  /\ drag = <<>>
  /\ sent = 0
  /\ responses = EmptyBag
  /\ edits = [n |-> 0, list |-> Cardinality(DOMAIN dbLists) + 1,
              task |-> Cardinality(DOMAIN dbTasks) + 1]
  /\ faults = [fetch |-> 0, write |-> 0]
  /\ calls = <<>>

\* One gesture, and nothing dragged before it.
Gesture == calls = <<>> /\ \E result \in Results : DragEnd(result)

Writes == \E k \in 1..Len(passes) : WriteLand(k) \/ WriteFail(k)

Fetches ==
  \/ \E table \in Tables : Notify(table)
  \/ FetchQuery
  \/ FetchError
  \/ \E r \in BagToSet(responses) : FetchResolve(r)

Edits ==
  \/ \E title \in Prompts, ok \in BOOLEAN : AddTaskList(title, ok)
  \/ \E l \in ListIds, ok \in BOOLEAN : DeleteTaskList(l, ok)
  \/ \E l \in ListIds, content \in Prompts, ok \in BOOLEAN : AddTask(l, content, ok)
  \/ \E t \in TaskIds, ok \in BOOLEAN : DeleteTask(t, ok)

Next == Mount \/ Gesture \/ Writes \/ Fetches

Spec == Init /\ [][Next]_vars

NextAll == Mount \/ Gesture \/ Writes \/ Fetches \/ Edits

SpecAll == Init /\ [][NextAll]_vars

\* The life of the component from mount to unmount, with the create and
\* delete handlers as the source of changes.
NextLife == Mount \/ Unmount \/ Edits \/ Fetches

SpecLife == Init /\ [][NextLife]_vars

\* Task drags one after the other, the later ones possibly while the write
\* pass of an earlier one is still running.
TaskGestures ==
  /\ Len(calls) < MaxGestures
  /\ \E result \in Results : result.type = "task" /\ DragEnd(result)

NextTwo == Mount \/ TaskGestures \/ Writes \/ Fetches

SpecTwo == Init /\ [][NextTwo]_vars

\* Two clients on one store: a gesture here, then one in another instance,
\* possibly while the write pass of the first is still running; every
\* update is accepted.
RemoteGesture ==
  /\ Len(calls) = 1
  /\ \E result \in Results, board \in Snapshots(dbLists, dbTasks) : RemoteDragEnd(result, board)

Lands == \E k \in 1..Len(passes) : WriteLand(k)

NextClients == Mount \/ Gesture \/ RemoteGesture \/ Lands \/ Fetches

SpecClients == Init /\ [][NextClients]_vars

\* One drag followed from pick-up to drop, while the create and delete
\* handlers and the reconciler go on.
PickUp ==
  /\ calls = <<>>
  /\ \E type \in {"list", "task"}, source \in Places({BoardId} \cup ListIds) :
       DragStart(type, source)

\* The Draggable being dragged is still rendered (its key is its id).
StillRendered(d) ==
  IF d.type = "list" THEN d.draggableId \in RenderedLists ELSE d.draggableId \in RenderedTasks

\* The drop: the source is the one noted at the pick-up.  A drag whose
\* Draggable has gone from the board ends without a destination.
Drop ==
  /\ drag # <<>>
  /\ \E result \in Results :
       /\ result.type = drag[1].type
       /\ result.source = drag[1].source
       /\ StillRendered(drag[1]) \/ result.destination = <<>>
       /\ DragEnd(result)

NextDrag == Mount \/ PickUp \/ Drop \/ Lands \/ Fetches \/ Edits

SpecDrag == Init /\ [][NextDrag]_vars

(***************************************************************************)
(* Vocabulary of the properties.                                           *)
(***************************************************************************)
\* The sequence with the item at 0-based index s taken out.
RemoveAt(seq, s) == [k \in 1..(Len(seq) - 1) |-> IF k <= s THEN seq[k] ELSE seq[k + 1]]

\* The sequence with x put in so that it sits at 0-based index d.
InsertAt(seq, d, x) ==
  [k \in 1..(Len(seq) + 1) |-> IF k <= d THEN seq[k] ELSE IF k = d + 1 THEN x ELSE seq[k - 1]]

HasList(board, id) == \E k \in 1..Len(board) : board[k].id = id

ListOf(board, id) == board[CHOOSE k \in 1..Len(board) : board[k].id = id]

\* The step is a call of onDragEnd; Called is its record.
GestureStep == Len(calls') = Len(calls) + 1

Called == calls'[Len(calls')]

\* The write pass started by the c-th call (calls that end "set" start one each).
PassOf(c) == passes[Cardinality({j \in 1..c : calls[j].outcome = "set"})]

Started(c) == calls[c].outcome = "set"

Dest(c) == c.result.destination[1]

\* A task-kind event from list A to another list B, both on the board, indices in range.
CrossListMove(c) ==
  /\ c.result.type = "task"
  /\ c.result.destination # <<>>
  /\ c.result.source.droppableId # Dest(c).droppableId
  /\ HasList(c.before, c.result.source.droppableId)
  /\ HasList(c.before, Dest(c).droppableId)
  /\ c.result.source.index < Len(ListOf(c.before, c.result.source.droppableId).tasks)
  /\ Dest(c).index <= Len(ListOf(c.before, Dest(c).droppableId).tasks)

MovedTask(c) == ListOf(c.before, c.result.source.droppableId).tasks[c.result.source.index + 1]

\* B's tasks after the move: the original sequence with T, now owned by B, at index d.
DestAfter(c) ==
  InsertAt(ListOf(c.before, Dest(c).droppableId).tasks, Dest(c).index,
           [id |-> MovedTask(c).id, list_id |-> Dest(c).droppableId])

C3_Board(c, after) ==
  /\ Ids(after) = Ids(c.before)
  /\ ListOf(after, c.result.source.droppableId).tasks =
       RemoveAt(ListOf(c.before, c.result.source.droppableId).tasks, c.result.source.index)
  /\ ListOf(after, Dest(c).droppableId).tasks = DestAfter(c)

C3_Writes(c, p) ==
  p.emitted = [k \in 1..Len(DestAfter(c)) |->
                 [id |-> DestAfter(c)[k].id, position |-> k - 1, list_id |-> Dest(c).droppableId]]

\* C3: a task-kind event that moves task T from list A to a different list B
\* at index d (indices in range) leaves A with its original tasks minus T in
\* the original order, B with its original tasks and T at index d, T owned by
\* B; and the finished write pass has updated exactly the tasks now in B, in
\* sequence order, to positions 0..|B|-1 with B's id.
C3_CrossListMoveReassigns ==
  /\ [][GestureStep /\ CrossListMove(Called) => C3_Board(Called, taskLists')]_vars
  /\ [](\A c \in 1..Len(calls) :
          CrossListMove(calls[c]) /\ Started(c) /\ PassOf(c).status = "done"
            => C3_Writes(calls[c], PassOf(c)))

\* A finished move of a task into a list that already held one, in front of it.
C3_Witness ==
  \E c \in 1..Len(calls) :
    /\ CrossListMove(calls[c])
    /\ Started(c)
    /\ PassOf(c).status = "done"
    /\ Dest(calls[c]).index = 0
    /\ Len(DestAfter(calls[c])) >= 2
    /\ ~PassOf(c).failed

\* A list-kind event with both indices in range.
ListMove(c) ==
  /\ c.result.type = "list"
  /\ c.result.destination # <<>>
  /\ c.result.source.index < Len(c.before)
  /\ Dest(c).index < Len(c.before)

ListsAfter(c) ==
  InsertAt(RemoveAt(c.before, c.result.source.index), Dest(c).index,
           c.before[c.result.source.index + 1])

C4_Writes(c, p) ==
  /\ \A w \in Range(p.emitted) :
       \E k \in 1..Len(ListsAfter(c)) : ListsAfter(c)[k].id = w.id /\ w.position = k - 1
  /\ \A k \in 1..Len(ListsAfter(c)) :
       ListsAfter(c)[k].id # c.before[k].id
         => \E w \in Range(p.emitted) : w.id = ListsAfter(c)[k].id /\ w.position = k - 1

MissingTarget(c) ==
  /\ c.result.type = "task"
  /\ c.result.destination # <<>>
  /\ \/ ~HasList(c.before, c.result.source.droppableId)
     \/ ~HasList(c.before, Dest(c).droppableId)

\* C5: a task-kind event whose source or destination container matches no
\* list of the local board leaves the board unchanged and starts no write.
C5_NoOpOnMissingTarget ==
  [][GestureStep /\ MissingTarget(Called)
       => taskLists' = taskLists /\ passes' = passes /\ Called.outcome = "returned"]_vars

\* Such an event has been handled on a board that has lists and tasks.
C5_Witness ==
  \E c \in 1..Len(calls) :
    /\ MissingTarget(calls[c])
    /\ HasList(calls[c].before, calls[c].result.source.droppableId)
    /\ calls[c].result.source.index < Len(ListOf(calls[c].before, calls[c].result.source.droppableId).tasks)
    /\ taskLists = calls[c].before
    /\ passes = <<>>

(***************************************************************************)
(* The reconciler.                                                         *)
(***************************************************************************)
\* The step delivers a change notification.
NotifyStep == Pending(notifs') = Pending(notifs) - 1

\* The step resumes one fetchTaskLists call; Resolved is the result it got.
ResolveStep == BagCardinality(responses') < BagCardinality(responses)

Resolved ==
  CHOOSE r \in BagToSet(responses) : CopiesIn(r, responses') < CopiesIn(r, responses)

Finished(p) == p.status \in {"done", "threw"}

Quiescent ==
  /\ mounted = "mounted"
  /\ Pending(notifs) = 0
  /\ sent = 0
  /\ responses = EmptyBag
  /\ \A k \in 1..Len(passes) : Finished(passes[k])

\* A task-kind event inside one list of the board, indices in range.
SameListMove(c) ==
  /\ c.result.type = "task"
  /\ c.result.destination # <<>>
  /\ c.result.source.droppableId = Dest(c).droppableId
  /\ HasList(c.before, Dest(c).droppableId)
  /\ c.result.source.index < Len(ListOf(c.before, Dest(c).droppableId).tasks)
  /\ Dest(c).index < Len(ListOf(c.before, Dest(c).droppableId).tasks)

\* The board a call of onDragEnd leaves, for the kinds of event stated above.
BoardAfter(c) ==
  IF ListMove(c) THEN ListsAfter(c)
  ELSE IF SameListMove(c) THEN
    [k \in 1..Len(c.before) |->
       IF c.before[k].id = Dest(c).droppableId
         THEN [c.before[k] EXCEPT !.tasks =
                 InsertAt(RemoveAt(@, c.result.source.index), Dest(c).index, MovedTask(c))]
         ELSE c.before[k]]
  ELSE [k \in 1..Len(c.before) |->
          IF c.before[k].id = Dest(c).droppableId
            THEN [c.before[k] EXCEPT !.tasks = DestAfter(c)]
          ELSE IF c.before[k].id = c.result.source.droppableId
            THEN [c.before[k] EXCEPT !.tasks = RemoveAt(@, c.result.source.index)]
          ELSE c.before[k]]

\* C7: while the component is subscribed every change notification starts a
\* fetch, and a fetch that resolves without error replaces the local board
\* by what it fetched, whatever the board held.
C7_ReconcilerOverwrite ==
  [][/\ NotifyStep /\ mounted = "mounted" => sent' = sent + 1
     /\ ResolveStep /\ mounted = "mounted" /\ ~Resolved.error => taskLists' = Resolved.lists]_vars

\* The board is back at S0, the board before the edit, while the edit's write
\* pass is still waiting for a write to land.
C7_Witness ==
  /\ Len(calls) = 1
  /\ Started(1)
  /\ ListMove(calls[1]) \/ CrossListMove(calls[1])
  /\ BoardAfter(calls[1]) # calls[1].before
  /\ PassOf(1).status = "await"
  /\ Len(PassOf(1).emitted) >= 2
  /\ taskLists = calls[1].before
  /\ faults.write = 0

\* C9: a fetch that resumes leaves every other fetch in flight, and replaces
\* the board by its own result even then: the board is the result of the
\* fetch that resumed last.
C9_LastResolvedFetchWins ==
  [][ResolveStep =>
       /\ responses' = responses (-) SetToBag({Resolved})
       /\ sent' = sent /\ notifs' = notifs
       /\ mounted = "mounted" /\ ~Resolved.error => taskLists' = Resolved.lists]_vars

\* After an edit whose writes all landed and whose fetches all resumed, the
\* board is not what the store holds: the fetch that resumed last carried
\* the older snapshot.
C9_Witness ==
  /\ Quiescent
  /\ Len(calls) = 1
  /\ Started(1)
  /\ PassOf(1).status = "done"
  /\ faults = [fetch |-> 0, write |-> 0]
  /\ taskLists \notin Snapshots(dbLists, dbTasks)

\* C10: a fetch that resolves with an error leaves the local board as it was.
C10_FetchErrorKeepsBoard ==
  [][ResolveStep /\ Resolved.error => taskLists' = taskLists /\ passes' = passes]_vars

\* A fetch started after the first one has failed and resumed; the board it
\* found was not empty, and is not empty now.
C10_Witness ==
  /\ faults.fetch >= 1
  /\ \A r \in BagToSet(responses) : ~r.error
  /\ Len(calls) = 1
  /\ calls[1].before # <<>>
  /\ Started(1)
  /\ Len(PassOf(1).emitted) >= 1
  /\ taskLists # <<>>

(***************************************************************************)
(* Positions.                                                              *)
(***************************************************************************)
\* Persisted list positions are exactly 0..m-1.
DenseLists(dbl) ==
  /\ {dbl[l].position : l \in DOMAIN dbl} = 0..(Cardinality(DOMAIN dbl) - 1)
  /\ \A a, b \in DOMAIN dbl : dbl[a].position = dbl[b].position => a = b

Reorder(c) == ListMove(c) \/ SameListMove(c) \/ CrossListMove(c)

\* C1: from a store with dense positions, once the write pass of a single
\* reorder (list-kind, or task-kind within one list or across two) has
\* finished with every write accepted and nobody else writing, the task
\* positions of every list are exactly 0..n-1 and the list positions are
\* exactly 0..m-1.
C1_PositionDensity ==
  Len(calls) = 1 /\ Reorder(calls[1]) /\ Started(1)
    /\ PassOf(1).status = "done" /\ ~PassOf(1).failed /\ edits.n = 0
  => DenseLists(dbLists) /\ DenseTasks(dbLists, dbTasks)

\* The lists, the tasks of each list and their order are those of the store.
LocalMatchesRemote ==
  /\ IsInjective(Ids(taskLists))
  /\ Range(Ids(taskLists)) = DOMAIN dbLists
  /\ \A k \in 1..Len(taskLists) :
       /\ IsInjective(Ids(taskLists[k].tasks))
       /\ Range(Ids(taskLists[k].tasks)) = TasksOf(dbTasks, taskLists[k].id)
       /\ SortedByPosition(dbTasks, Ids(taskLists[k].tasks))

\* C2: once the gestures have stopped and every write, notification and
\* fetch has completed (none of them failing), the local board equals the
\* persisted board: same lists, same tasks in each list, same task order.
\* Nothing is left to run in such a state, so convergence must already hold.
C2_ConvergedWhenQuiescent ==
  Quiescent /\ faults = [fetch |-> 0, write |-> 0] /\ edits.n = 0
    /\ (\A k \in 1..Len(passes) : passes[k].status = "done")
    /\ (\A c \in 1..Len(calls) : calls[c].outcome # "threw")
  => LocalMatchesRemote

\* A list-kind or task-kind event that drops the item where it was.
SamePlace(c) ==
  /\ ListMove(c) \/ SameListMove(c)
  /\ c.result.source.index = Dest(c).index

\* The values the awaited update of pass p would store are those the row holds.
WritesPersistedValues(p) ==
  LET w == Awaited(p)
  IN IF p.type = "list"
       THEN w.id \in DOMAIN dbLists => dbLists[w.id].position = w.position
       ELSE w.id \in DOMAIN dbTasks =>
              dbTasks[w.id] = [list_id |-> w.list_id, position |-> w.position]

\* C6: a reorder of a list or a task to its own current position leaves the
\* local board equal to the input, and every write it issues carries the
\* values already persisted for its row, in every state reachable through
\* create, delete, reorder and reconcile.
C6_IdempotentReorder ==
  \A c \in 1..Len(calls) :
    SamePlace(calls[c]) /\ Started(c)
    => /\ BoardAfter(calls[c]) = calls[c].before
       /\ PassOf(c).status = "await" => WritesPersistedValues(PassOf(c))

ListsAscending(board, dbl) ==
  \A a, b \in 1..Len(board) : a < b => dbl[board[a].id].position <= dbl[board[b].id].position

TasksAscending(board, dbt) ==
  \A k \in 1..Len(board) : SortedByPosition(dbt, Ids(board[k].tasks))

\* C8: whenever a successful fetch has just replaced the local board (and
\* the store has not changed under the fetch), the lists of the board are in
\* ascending order of their persisted positions and so are the tasks inside
\* each list.
C8_BoardOrderAfterFetch ==
  [][ResolveStep /\ mounted = "mounted" /\ ~Resolved.error
       /\ Resolved.lists \in Snapshots(dbLists, dbTasks)
     => ListsAscending(taskLists', dbLists) /\ TasksAscending(taskLists', dbTasks)]_vars

(***************************************************************************)
(* Frame and failure behaviour of the handlers.                            *)
(***************************************************************************)
\* C11: an event of either kind whose destination is null leaves the local
\* board, the write passes and both tables exactly as they were: nothing is
\* set and no write is issued.
C11_DropOutside ==
  [][GestureStep /\ Called.result.destination = <<>>
       => /\ taskLists' = taskLists
          /\ passes' = passes
          /\ dbLists' = dbLists /\ dbTasks' = dbTasks
          /\ Called.outcome = "returned"]_vars

\* A list was dragged off a board of several lists and dropped outside.
C11_Witness ==
  \E c \in 1..Len(calls) :
    /\ calls[c].result.type = "list"
    /\ calls[c].result.destination = <<>>
    /\ Len(calls[c].before) >= 2
    /\ calls[c].result.source.index < Len(calls[c].before)
    /\ taskLists = calls[c].before
    /\ passes = <<>>

\* The step is an awaited update returning with an error.
WriteFailStep == faults.write' = faults.write + 1

\* What pass p did in this step, if anything: it went on to the write of the
\* next index, or ended (at the end of the array, or on an entry without id).
WentOn(p, q) ==
  \/ q = p
  \/ /\ p.status = "await"
     /\ \/ Finished(q) /\ q.emitted = p.emitted
        \/ /\ q.status = "await"
           /\ Len(q.emitted) = Len(p.emitted) + 1
           /\ SubSeq(q.emitted, 1, Len(p.emitted)) = p.emitted
           /\ Awaited(q).id # Awaited(p).id

C13_SubscriptionLifecycle ==
  /\ [](mounted = "new" => sent = 0 /\ responses = EmptyBag)
  /\ [][mounted' # mounted
         => \/ mounted = "new" /\ mounted' = "mounted" /\ sent' = sent + 1
            \/ mounted = "mounted" /\ mounted' = "unmounted" /\ sent' = sent]_vars
  /\ [][\A table \in Tables :
           notifs'[table] = notifs[table] - 1 /\ mounted = "mounted"
             => sent' = sent + 1 /\ ignored' = ignored]_vars
  /\ [][mounted = "unmounted"
         => mounted' = mounted /\ sent' <= sent /\ taskLists' = taskLists]_vars

\* After the unmount a change notification arrived and passed; no fetch is
\* in flight.
C13_Witness ==
  /\ mounted = "unmounted"
  /\ ignored >= 1
  /\ Pending(notifs) = 0
  /\ sent = 0
  /\ responses = EmptyBag

(***************************************************************************)
(* The shape of the local board.                                           *)
(***************************************************************************)
\* Every task of the board is in one place only, and names the list it is in.
SingleOwnership(board) ==
  /\ \A k, k2 \in 1..Len(board) :
       \A j \in 1..Len(board[k].tasks), j2 \in 1..Len(board[k2].tasks) :
         board[k].tasks[j].id = board[k2].tasks[j2].id => k = k2 /\ j = j2
  /\ \A k \in 1..Len(board) :
       \A j \in 1..Len(board[k].tasks) : board[k].tasks[j].list_id = board[k].id

\* The event is a reorder with indices in range, or one the handler returns from.
InRange(c) == Reorder(c) \/ c.outcome = "returned"

\* C14: whatever fetches have replaced the board and whatever reorder with
\* in-range indices has been applied to it, every task id of the local board
\* appears in exactly one list, once, and the task's list_id is that list's id.
C14_SingleOwnership ==
  (\A c \in 1..Len(calls) : InRange(calls[c])) => SingleOwnership(taskLists)

\* The board right after a task was moved into another list that held a task.
C14_Witness ==
  /\ Len(calls) = 1
  /\ CrossListMove(calls[1])
  /\ Len(DestAfter(calls[1])) >= 2
  /\ taskLists = BoardAfter(calls[1])
  /\ PassOf(1).status = "await"

(***************************************************************************)
(* Where the moved item lands.                                             *)
(***************************************************************************)
\* The ids of the sequence an event takes its item from, and of the one it
\* puts it into, on a given board.
SourceSeq(c, board) ==
  IF c.result.type = "list" THEN Ids(board)
  ELSE Ids(ListOf(board, c.result.source.droppableId).tasks)

DestSeq(c, board) ==
  IF c.result.type = "list" THEN Ids(board)
  ELSE Ids(ListOf(board, Dest(c).droppableId).tasks)

MovedId(c) == SourceSeq(c, c.before)[c.result.source.index + 1]

\* The sequence without x, the rest in the order it had.
Others(seq, x) == LET Keep(y) == y # x IN SelectSeq(seq, Keep)

TaskMove(c) == SameListMove(c) \/ CrossListMove(c)

IsPrefix(s, t) == Len(s) <= Len(t) /\ s = SubSeq(t, 1, Len(s))

\* The ids of the destination list as a task move leaves it: the moved task
\* at the destination index among the others.
DestIdsAfter(c) ==
  InsertAt(Others(DestSeq(c, c.before), MovedId(c)), Dest(c).index, MovedId(c))

\* The updates pass p has issued are the first of: one per id of ids, in
\* sequence order, its index as position and list l as list_id; and all of
\* them once the pass is done.
IssuedFor(p, ids, l) ==
  /\ Len(p.emitted) <= Len(ids)
  /\ \A k \in 1..Len(p.emitted) :
       p.emitted[k] = [id |-> ids[k], position |-> k - 1, list_id |-> l]
  /\ p.status = "done" => Len(p.emitted) = Len(ids)

\* C16: the write pass of a task reorder issues exactly one update per task
\* of the destination list, carrying the task's index and the destination
\* list's id, and nothing else: whenever the pass or the store changes, the
\* updates issued so far are the first of these, all of them once the pass is
\* done, and the step has changed no persisted row of a task outside the
\* destination list, nor any list row.
C16_TaskWriteSet ==
  [][passes' # passes \/ dbTasks' # dbTasks \/ dbLists' # dbLists
       => \A c \in 1..Len(calls') :
            TaskMove(calls'[c]) /\ Started(c)'
              => LET ids == DestIdsAfter(calls'[c])
                 IN /\ IssuedFor(PassOf(c)', ids, Dest(calls'[c]).droppableId)
                    /\ dbLists' = dbLists
                    /\ DOMAIN dbTasks' = DOMAIN dbTasks
                    /\ \A t \in DOMAIN dbTasks :
                         dbTasks'[t] # dbTasks[t] => \E k \in 1..Len(ids) : ids[k] = t]_vars

\* A task was moved out of a list that keeps another task; the pass has
\* finished, every write accepted.
C16_Witness ==
  /\ Len(calls) = 1
  /\ CrossListMove(calls[1])
  /\ Started(1)
  /\ PassOf(1).status = "done"
  /\ ~PassOf(1).failed
  /\ Len(SourceSeq(calls[1], BoardAfter(calls[1]))) >= 1
  /\ \A t \in Range(SourceSeq(calls[1], BoardAfter(calls[1]))) :
       dbTasks[t].list_id = calls[1].result.source.droppableId

(***************************************************************************)
(* Positions under the create and delete handlers.                         *)
(***************************************************************************)
\* The step is a create or delete handler issuing its write.
EditStep == edits'.n = edits.n + 1

\* Nothing has been dragged, nothing is in flight and the board shows the store.
Refreshed == calls = <<>> /\ Quiescent /\ LocalMatchesRemote

\* C17: from a store with list positions 0..m-1 and a refreshed board, the
\* write of a createList or deleteList that lands leaves the list positions
\* exactly 0..m'-1, and a created list is stored with the number of existing
\* lists as its position.
C17_ListPositionsUnderEdits ==
  [][EditStep /\ Refreshed /\ DenseLists(dbLists) /\ DOMAIN dbLists' # DOMAIN dbLists
       => /\ DenseLists(dbLists')
          /\ \A l \in DOMAIN dbLists' \ DOMAIN dbLists :
               dbLists'[l].position = Cardinality(DOMAIN dbLists)]_vars

\* C18: from a store with task positions 0..n-1 in every list, the write of
\* a createTask or deleteTask that lands leaves every task with an integer
\* position and every list's task positions exactly 0..n'-1.
C18_TaskPositionsUnderEdits ==
  [][EditStep /\ calls = <<>> /\ DenseTasks(dbLists, dbTasks)
       /\ dbLists' = dbLists /\ DOMAIN dbTasks' # DOMAIN dbTasks
       => /\ \A t \in DOMAIN dbTasks' : dbTasks'[t].position # NULL
          /\ DenseTasks(dbLists', dbTasks')]_vars

(***************************************************************************)
(* The order of events within one reorder.                                 *)
(***************************************************************************)
\* The row of update w holds what w carries (or there is no such row).
Holds(p, w, dbl, dbt) ==
  IF p.type = "list"
    THEN w.id \in DOMAIN dbl => dbl[w.id].position = w.position
    ELSE w.id \in DOMAIN dbt => dbt[w.id] = [list_id |-> w.list_id, position |-> w.position]

\* Pass p issued its next update in this step, becoming q.
IssuedNext(p, q) ==
  /\ Len(q.emitted) = Len(p.emitted) + 1
  /\ SubSeq(q.emitted, 1, Len(p.emitted)) = p.emitted
  /\ Awaited(q).position = Len(p.emitted)

\* C19: the handler publishes the whole new board in the step of the
\* gesture, with no write of the gesture landed or failed before it and at
\* most the update of index 0 issued; from then on the pass issues one
\* update per step, for indices 0, 1, 2.. in this order, and issues the next
\* only in the step in which the awaited one has returned (landed or failed).
C19_OrderWithinReorder ==
  /\ [][GestureStep /\ Reorder(Called)
         => /\ taskLists' = BoardAfter(Called)
            /\ dbLists' = dbLists /\ dbTasks' = dbTasks /\ faults' = faults
            /\ Len(passes') = Len(passes) + 1
            /\ SubSeq(passes', 1, Len(passes)) = passes
            /\ Len(passes'[Len(passes')].emitted) <= 1]_vars
  /\ [][\A k \in 1..Len(passes) :
           \/ passes'[k].emitted = passes[k].emitted
           \/ /\ passes[k].status = "await"
              /\ IssuedNext(passes[k], passes'[k])
              /\ \/ faults'.write = faults.write + 1
                 \/ Holds(passes[k], Awaited(passes[k]), dbLists', dbTasks')]_vars
  /\ [](\A k \in 1..Len(passes) :
          \A j \in 1..Len(passes[k].emitted) : passes[k].emitted[j].position = j - 1)

\* The board shows the reorder, the update of index 0 has landed and the
\* pass is waiting for the update of index 1.
C19_Witness ==
  /\ Len(calls) = 1
  /\ Reorder(calls[1])
  /\ Started(1)
  /\ taskLists = BoardAfter(calls[1])
  /\ taskLists # calls[1].before
  /\ PassOf(1).status = "await"
  /\ Len(PassOf(1).emitted) = 2
  /\ faults.write = 0
  /\ Holds(PassOf(1), PassOf(1).emitted[1], dbLists, dbTasks)
  /\ ~Holds(PassOf(1), PassOf(1).emitted[2], dbLists, dbTasks)

(***************************************************************************)
(* Gestures that overlap.                                                  *)
(***************************************************************************)
\* C20: the updates a task reorder's write pass issues are those computed
\* from the board and the event of its own gesture, one per task of the
\* destination list as that gesture left it, whatever other task gesture
\* (with in-range indices) is handled while the pass is suspended on a write.
C20_WritesFixedByGesture ==
  \A c \in 1..Len(calls) :
    TaskMove(calls[c]) /\ Started(c) /\ (\A b \in 1..Len(calls) : InRange(calls[b]))
      => LET p == PassOf(c)
         IN IF p.status = "done"
              THEN Ids(p.emitted) = DestSeq(calls[c], BoardAfter(calls[c]))
              ELSE IsPrefix(Ids(p.emitted), DestSeq(calls[c], BoardAfter(calls[c])))

(***************************************************************************)
(* Two clients.                                                            *)
(***************************************************************************)
\* The persisted positions of list l's tasks are exactly 0..n-1.
DenseIn(dbt, l) ==
  /\ {dbt[t].position : t \in TasksOf(dbt, l)} = 0..(Cardinality(TasksOf(dbt, l)) - 1)
  /\ \A a, b \in TasksOf(dbt, l) : dbt[a].position = dbt[b].position => a = b

\* Both clients have made their gesture and both write passes have run to
\* their end.
BothDone ==
  /\ Len(calls) = 2
  /\ Started(1) /\ Started(2)
  /\ PassOf(1).status = "done" /\ PassOf(2).status = "done"

\* C21: when two clients have each reordered the lists, or each reordered
\* the tasks of the same list, from a store with dense positions, and both
\* write passes have completed with every write accepted, in whatever order
\* their writes interleaved, the persisted positions of the lists (of that
\* list's tasks) are exactly 0..n-1 without duplicates.
C21_DensityUnderTwoClients ==
  /\ BothDone /\ ListMove(calls[1]) /\ ListMove(calls[2]) => DenseLists(dbLists)
  /\ BothDone /\ SameListMove(calls[1]) /\ SameListMove(calls[2])
       /\ Dest(calls[1]).droppableId = Dest(calls[2]).droppableId
       => DenseIn(dbTasks, Dest(calls[1]).droppableId)

(***************************************************************************)
(* Stale indices.                                                          *)
(***************************************************************************)
\* C22: no call of onDragEnd raises an error, and none leaves in the local
\* board an entry that is not a list, or in a list an entry that is not a
\* task, even when the source index of the event, taken when the drag
\* began, is past the end of the current board because a reconcile has since
\* replaced the board by one with fewer items.
C22_NoCrashPath ==
  [][GestureStep => Called.outcome # "threw" /\ Renderable(taskLists')]_vars

====
